---- MODULE Spec2Model ----
(***************************************************************************)
(* Model of session.ts (antigravity-session-manager).                      *)
(*                                                                         *)
(* Two SQLite stores:                                                      *)
(*   agDb      the IDE's live ItemTable (state.vscdb), reduced to the two  *)
(*             keys the program touches: 'antigravityAuthStatus' and       *)
(*             'google.antigravity'.  A key is <<>> when no row exists and *)
(*             <<v>> when a row with value v exists.                       *)
(*   sessions  the rows of the table sessions in ~/.antigravity/sessions.db*)
(*                                                                         *)
(* Every CLI command is one short-lived process and is one action.         *)
(* last is what the process that has just ended printed and returned; it   *)
(* is reset when the IDE writes its store afterwards.                      *)
(* JavaScript null/undefined is the empty sequence <<>>, a present value v *)
(* is <<v>>.                                                               *)
(*                                                                         *)
(* Both database files exist and can be opened, and an email member of the *)
(* auth payload, when present, is a string.                                *)
(*                                                                         *)
(* Spec     the commands sync, next, load, delete, list and the IDE        *)
(*          writing its store, in any order.                               *)
(* SpecRot  getNextSession applied to every frozen repository of up to     *)
(*          three sessions.                                                *)
(* SpecRR   next run up to three times in a row over such a repository,    *)
(*          with no write of the IDE in between.                           *)
(* SpecDelete  delete applied to such a repository.                        *)
(* SpecLoad one loadSession statement by statement, the process killed at  *)
(*          any point.                                                     *)
(* SpecLoad2  two processes running loadSession for different sessions,    *)
(*          interleaved statement by statement.                            *)
(* rot, rr and ld record what SpecRot, SpecRR and SpecLoad observe; each   *)
(* is constant in the other specifications.                                *)
(***************************************************************************)
EXTENDS Integers, Sequences, FiniteSets, TLC

VARIABLES agDb, sessions, last, rot, rr, ld

vars == <<agDb, sessions, last, rot, rr, ld>>

----------------------------------------------------------------------------
(* Bounds *)

\* Largest value Date.now() takes.
MaxTime == 1

\* Largest last_used of a row of a frozen repository (SpecRot, SpecRR,
\* SpecLoad).
MaxLastUsed == 2

----------------------------------------------------------------------------
(* Values *)

\* E-mail addresses, listed in ascending order of SQLite's BINARY collation.
EmailSeq == <<"a@x.com", "b@x.com", "c@x.com">>

Emails == {EmailSeq[i] : i \in 1..Len(EmailSeq)}

EmailIndex(e) == CHOOSE i \in 1..Len(EmailSeq) : EmailSeq[i] = e

\* e1 sorts before or with e2 under ORDER BY email ASC.
EmailLeq(e1, e2) == EmailIndex(e1) <= EmailIndex(e2)

\* Text stored under 'antigravityAuthStatus'.  The text is kept as what it
\* says: shape "garbage" is not JSON, "null" is the JSON literal null,
\* "object" is a JSON object whose email member is absent (<<>>) or present
\* (<<e>>, possibly the empty string); rev tells apart payloads that differ
\* in their other members.
GarbageBlob == [shape |-> "garbage", email |-> <<>>, rev |-> 0]
NullBlob == [shape |-> "null", email |-> <<>>, rev |-> 0]
NoEmailBlob == [shape |-> "object", email |-> <<>>, rev |-> 0]
EmptyEmailBlob == [shape |-> "object", email |-> <<"">>, rev |-> 0]

AuthBlob(e, v) == [shape |-> "object", email |-> <<e>>, rev |-> v]

\* The accounts the user logs in with; the last address of EmailSeq is never
\* logged in, so it is always unknown to the repository.
Accounts == {EmailSeq[1], EmailSeq[2]}

\* The payloads the IDE writes for an account: the same identity with
\* different other members.  The first account has two, the second one.
Revs(e) == IF e = EmailSeq[1] THEN {1, 2} ELSE {1}

ValidAuthBlobs == UNION {{AuthBlob(e, v) : v \in Revs(e)} : e \in Accounts}

AuthValues == {GarbageBlob, NullBlob, NoEmailBlob, EmptyEmailBlob} \cup ValidAuthBlobs

\* Text stored under 'google.antigravity'.
GoogleValues == {"", "{g:1}"}

Times == 0..MaxTime

----------------------------------------------------------------------------
(* JSON.parse and the reader *)

\* JSON.parse(text): throws on text that is not JSON, otherwise the value.
JSONparse(b) ==
    IF b.shape = "garbage" THEN [threw |-> TRUE, isNull |-> FALSE, email |-> <<>>]
    ELSE IF b.shape = "null" THEN [threw |-> FALSE, isNull |-> TRUE, email |-> <<>>]
    ELSE [threw |-> FALSE, isNull |-> FALSE, email |-> b.email]

\* googleRow?.value || '{}'
GoogleOrDefault(googleRow) ==
    IF googleRow = <<>> \/ googleRow[1] = "" THEN "{}" ELSE googleRow[1]

----------------------------------------------------------------------------
(* The sessions table *)

\* SELECT * FROM sessions WHERE email = ?  (.get(): first row or null)
SelectByEmail(ss, email) ==
    LET m == {r \in ss : r.email = email} IN
    IF m = {} THEN <<>> ELSE << CHOOSE r \in m : TRUE >>

RowLeq_EmailDesc(r, q) ==
    \/ r.last_used < q.last_used
    \/ r.last_used = q.last_used /\ EmailLeq(q.email, r.email)

\* ORDER BY last_used ASC, email ASC
RowLeq(r, q) ==
    \/ r.last_used < q.last_used
    \/ r.last_used = q.last_used /\ EmailLeq(r.email, q.email)

RECURSIVE OrderByLastUsedEmail(_)
OrderByLastUsedEmail(ss) ==
    IF ss = {} THEN <<>>
    ELSE LET m == CHOOSE r \in ss : \A q \in ss : RowLeq(r, q) IN
         <<m>> \o OrderByLastUsedEmail(ss \ {m})

\* sessions.findIndex(s => s.email === currentEmail); 0 stands for -1,
\* positions are 1-based.
FindIndex(seq, email) ==
    LET hits == {i \in 1..Len(seq) : seq[i].email = email} IN
    IF hits = {} THEN 0 ELSE CHOOSE i \in hits : \A j \in hits : i <= j

----------------------------------------------------------------------------
(* Operations *)

getCurrentSession_NoEmailCheck(ag) ==
    IF ag.auth = <<>> THEN <<>>
    ELSE LET authData == JSONparse(ag.auth[1]) IN
         IF authData.threw THEN <<>>
         ELSE IF authData.isNull THEN <<>>
         ELSE << [email |-> IF authData.email = <<>> THEN "" ELSE authData.email[1],
                  auth_status |-> ag.auth[1],
                  google_data |-> GoogleOrDefault(ag.google)] >>

\* getCurrentSession(): <<>> is null.  JSON.parse throwing, and the
\* TypeError of reading .email of null, end in the catch clause.
getCurrentSession(ag) ==
    IF ag.auth = <<>> THEN <<>>
    ELSE LET authData == JSONparse(ag.auth[1]) IN
         IF authData.threw THEN <<>>
         ELSE IF authData.isNull THEN <<>>
         ELSE IF authData.email = <<>> \/ authData.email[1] = "" THEN <<>>
         ELSE << [email |-> authData.email[1],
                  auth_status |-> ag.auth[1],
                  google_data |-> GoogleOrDefault(ag.google)] >>

BlobsChanged_Always(existing, cur) == TRUE

BlobsChanged_AuthOnly(existing, cur) == existing.auth_status # cur.auth_status

\* existing.auth_status !== current.auth_status ||
\* existing.google_data !== current.google_data
BlobsChanged(existing, cur) ==
    \/ existing.auth_status # cur.auth_status
    \/ existing.google_data # cur.google_data

UpdateSession_StampZero(ss, cur, now) ==
    {IF r.email = cur.email
     THEN [r EXCEPT !.auth_status = cur.auth_status,
                    !.google_data = cur.google_data,
                    !.updated_at = 0]
     ELSE r : r \in ss}

UpdateSession_AuthOnly(ss, cur, now) ==
    {IF r.email = cur.email
     THEN [r EXCEPT !.auth_status = cur.auth_status, !.updated_at = now]
     ELSE r : r \in ss}

\* UPDATE sessions SET auth_status = ?, google_data = ?, updated_at = ?
\* WHERE email = ?
UpdateSession(ss, cur, now) ==
    {IF r.email = cur.email
     THEN [r EXCEPT !.auth_status = cur.auth_status,
                    !.google_data = cur.google_data,
                    !.updated_at = now]
     ELSE r : r \in ss}

InsertSession_LastUsedNow(ss, cur, now) ==
    ss \cup {[email |-> cur.email,
              auth_status |-> cur.auth_status,
              google_data |-> cur.google_data,
              last_used |-> now,
              created_at |-> now,
              updated_at |-> now]}

\* INSERT INTO sessions (email, auth_status, google_data, last_used,
\* created_at, updated_at) VALUES (?, ?, ?, 0, now, now); the column name is
\* left NULL and is not modelled.
InsertSession(ss, cur, now) ==
    ss \cup {[email |-> cur.email,
              auth_status |-> cur.auth_status,
              google_data |-> cur.google_data,
              last_used |-> 0,
              created_at |-> now,
              updated_at |-> now]}

\* syncCurrent(): the table afterwards and the line printed.
syncCurrent(ag, ss, now) ==
    LET current == getCurrentSession(ag) IN
    IF current = <<>> THEN [sessions |-> ss, out |-> "NoActiveSession"]
    ELSE LET cur == current[1]
             existing == SelectByEmail(ss, cur.email) IN
         IF existing # <<>> THEN
             IF BlobsChanged(existing[1], cur)
             THEN [sessions |-> UpdateSession(ss, cur, now), out |-> "Updated"]
             ELSE [sessions |-> ss, out |-> "Unchanged"]
         ELSE [sessions |-> InsertSession(ss, cur, now), out |-> "Added"]

getNextSession_NullOnUnknown(ss, currentEmail) ==
    LET ordered == OrderByLastUsedEmail(ss) IN
    IF Len(ordered) = 0 THEN <<>>
    ELSE IF currentEmail = <<>> \/ currentEmail[1] = "" THEN <<ordered[1]>>
    ELSE LET currentIndex == FindIndex(ordered, currentEmail[1]) IN
         IF currentIndex = 0 THEN <<>>
         ELSE <<ordered[(currentIndex % Len(ordered)) + 1]>>

getNextSession_NoWrap(ss, currentEmail) ==
    LET ordered == OrderByLastUsedEmail(ss) IN
    IF Len(ordered) = 0 THEN <<>>
    ELSE IF Len(ordered) = 1 THEN <<ordered[1]>>
    ELSE IF currentEmail = <<>> \/ currentEmail[1] = "" THEN <<ordered[1]>>
    ELSE LET currentIndex == FindIndex(ordered, currentEmail[1]) IN
         IF currentIndex = 0 THEN <<ordered[1]>>
         ELSE IF currentIndex = Len(ordered) THEN <<ordered[currentIndex]>>
         ELSE <<ordered[currentIndex + 1]>>

\* getNextSession(currentEmail?): <<>> is null; currentEmail is <<>> when
\* undefined.  Positions are 1-based: (currentIndex % length) + 1 is the
\* source's (currentIndex + 1) % length.
getNextSession(ss, currentEmail) ==
    LET ordered == OrderByLastUsedEmail(ss) IN
    IF Len(ordered) = 0 THEN <<>>
    ELSE IF Len(ordered) = 1 THEN <<ordered[1]>>
    ELSE IF currentEmail = <<>> \/ currentEmail[1] = "" THEN <<ordered[1]>>
    ELSE LET currentIndex == FindIndex(ordered, currentEmail[1]) IN
         IF currentIndex = 0 THEN <<ordered[1]>>
         ELSE <<ordered[(currentIndex % Len(ordered)) + 1]>>

WriteCurrent_InsertOrIgnore(ag, session) ==
    [auth |-> IF ag.auth = <<>> THEN <<session.auth_status>> ELSE ag.auth,
     google |-> IF ag.google = <<>> THEN <<session.google_data>> ELSE ag.google]

WriteCurrent_AuthOnly(ag, session) ==
    [ag EXCEPT !.auth = <<session.auth_status>>]

\* INSERT OR REPLACE INTO ItemTable (key, value), once for each of the two
\* keys.
WriteCurrent(ag, session) ==
    [auth |-> <<session.auth_status>>, google |-> <<session.google_data>>]

TouchLastUsed_StampsUpdated(ss, email, now) ==
    {IF r.email = email THEN [r EXCEPT !.last_used = now, !.updated_at = now]
     ELSE r : r \in ss}

\* UPDATE sessions SET last_used = ? WHERE email = ?
TouchLastUsed(ss, email, now) ==
    {IF r.email = email THEN [r EXCEPT !.last_used = now] ELSE r : r \in ss}

loadSession_ClearOnMiss(ag, ss, email, now) ==
    LET session == SelectByEmail(ss, email) IN
    IF session = <<>>
    THEN [agDb |-> [auth |-> <<>>, google |-> <<>>], sessions |-> ss, out |-> "NotFound"]
    ELSE [agDb |-> WriteCurrent(ag, session[1]),
          sessions |-> TouchLastUsed(ss, email, now),
          out |-> "Loaded"]

\* loadSession(email): both stores afterwards and the line printed.
loadSession(ag, ss, email, now) ==
    LET session == SelectByEmail(ss, email) IN
    IF session = <<>> THEN [agDb |-> ag, sessions |-> ss, out |-> "NotFound"]
    ELSE [agDb |-> WriteCurrent(ag, session[1]),
          sessions |-> TouchLastUsed(ss, email, now),
          out |-> "Loaded"]

\* listSessions(): the line printed for an empty table, otherwise the
\* listing, in which the rows marked as current are those of the identity
\* getCurrentSession reports.  It opens the live store read-only.
listSessions(ag, ss) ==
    LET current == getCurrentSession(ag) IN
    IF ss = {} THEN [out |-> "NoSessionsStored", marked |-> {}]
    ELSE [out |-> "Listed",
          marked |-> {r.email : r \in {q \in ss : current # <<>> /\ q.email = current[1].email}}]

deleteSession_All(ss, email) == {}

\* deleteSession(email)
deleteSession(ss, email) == {r \in ss : r.email # email}

next_NeedsCurrent(ag, ss, now1, now2) ==
    LET synced == syncCurrent(ag, ss, now1)
        current == getCurrentSession(ag)
        currentEmail == IF current = <<>> THEN <<>> ELSE <<current[1].email>>
        nextSession == getNextSession(synced.sessions, currentEmail) IN
    IF nextSession = <<>> \/ current = <<>>
    THEN [agDb |-> ag, sessions |-> synced.sessions, sync |-> synced.out,
          out |-> "NoSessions"]
    ELSE IF nextSession[1].email = current[1].email
    THEN [agDb |-> ag, sessions |-> synced.sessions, sync |-> synced.out,
          out |-> "AlreadyOnOnly"]
    ELSE LET loaded == loadSession(ag, synced.sessions, nextSession[1].email, now2) IN
         [agDb |-> loaded.agDb, sessions |-> loaded.sessions, sync |-> synced.out,
          out |-> loaded.out]

next_IgnoresCurrent(ag, ss, now1, now2) ==
    LET synced == syncCurrent(ag, ss, now1)
        current == getCurrentSession(ag)
        nextSession == getNextSession(synced.sessions, <<>>) IN
    IF nextSession = <<>>
    THEN [agDb |-> ag, sessions |-> synced.sessions, sync |-> synced.out,
          out |-> "NoSessions"]
    ELSE IF current # <<>> /\ nextSession[1].email = current[1].email
    THEN [agDb |-> ag, sessions |-> synced.sessions, sync |-> synced.out,
          out |-> "AlreadyOnOnly"]
    ELSE LET loaded == loadSession(ag, synced.sessions, nextSession[1].email, now2) IN
         [agDb |-> loaded.agDb, sessions |-> loaded.sessions, sync |-> synced.out,
          out |-> loaded.out]

next_AlwaysLoads(ag, ss, now1, now2) ==
    LET synced == syncCurrent(ag, ss, now1)
        current == getCurrentSession(ag)
        currentEmail == IF current = <<>> THEN <<>> ELSE <<current[1].email>>
        nextSession == getNextSession(synced.sessions, currentEmail) IN
    IF nextSession = <<>>
    THEN [agDb |-> ag, sessions |-> synced.sessions, sync |-> synced.out,
          out |-> "NoSessions"]
    ELSE LET loaded == loadSession(ag, synced.sessions, nextSession[1].email, now2) IN
         [agDb |-> loaded.agDb, sessions |-> loaded.sessions, sync |-> synced.out,
          out |-> loaded.out]

\* next(): syncCurrent reads Date.now() as now1, loadSession as now2.
next(ag, ss, now1, now2) ==
    LET synced == syncCurrent(ag, ss, now1)
        current == getCurrentSession(ag)
        currentEmail == IF current = <<>> THEN <<>> ELSE <<current[1].email>>
        nextSession == getNextSession(synced.sessions, currentEmail) IN
    IF nextSession = <<>>
    THEN [agDb |-> ag, sessions |-> synced.sessions, sync |-> synced.out,
          out |-> "NoSessions"]
    ELSE IF current # <<>> /\ nextSession[1].email = current[1].email
    THEN [agDb |-> ag, sessions |-> synced.sessions, sync |-> synced.out,
          out |-> "AlreadyOnOnly"]
    ELSE LET loaded == loadSession(ag, synced.sessions, nextSession[1].email, now2) IN
         [agDb |-> loaded.agDb, sessions |-> loaded.sessions, sync |-> synced.out,
          out |-> loaded.out]

----------------------------------------------------------------------------
(* State machine: the CLI commands and the environment *)

\* Date.now(): the clock does not run backwards, so it is never behind a
\* time stamp it has handed out to a row that is still stored.
Nows(ss) ==
    {t \in Times : \A r \in ss : /\ r.last_used <= t
                                  /\ r.created_at <= t
                                  /\ r.updated_at <= t}

\* What the last command printed and the exit status of its process.
\* repeat: the command before it was the same command, with no write of the
\* IDE in between (recorded for sync only).
\* changes: the number of rows the DELETE of the command removed.
NoCommand ==
    [cmd |-> "none", sync |-> "", out |-> "", exit |-> 0, repeat |-> FALSE,
     changes |-> 0]

\* Rotation probe (specification SpecRot): the last call of getNextSession
\* (asked, arg, ret) and a walk that follows it from start (path).
NoRot == [asked |-> FALSE, arg |-> <<>>, ret |-> <<>>, start |-> <<>>, path |-> <<>>]

\* Round-robin probe (specification SpecRR): n, the number of sessions the
\* repository held after the first sync; nexts, the runs of next so far;
\* loads, the identities they loaded; strict, every load so far drew a
\* timestamp above every stored last_used; live, the live store held a
\* parseable identity at the start.
NoRR == [n |-> 0, nexts |-> 0, loads |-> <<>>, strict |-> TRUE, live |-> FALSE]

\* The process running loadSession(email) in specification SpecLoad: pc, the
\* statement it is about to run; at, the statement it was about to run when
\* it was killed; session, the row its SELECT returned; before, the live
\* store when it started.
NoLoad ==
    [pc |-> "none", at |-> "none", email |-> "", session |-> <<>>, before |-> <<>>]

\* process.argv[3]: undefined, the empty string, or an address.
Args == {<<>>, <<"">>} \cup {<<e>> : e \in Emails}

Init ==
    /\ agDb = [auth |-> <<>>, google |-> <<>>]
    /\ sessions = {}
    /\ last = NoCommand
    /\ rot = NoRot
    /\ rr = NoRR
    /\ ld = NoLoad

\* The IDE logs in, logs out or rewrites its state: the row of the auth key
\* is removed or given any value.
IdeWriteAuth ==
    /\ \E a \in {<<>>} \cup {<<v>> : v \in AuthValues} :
          agDb' = [agDb EXCEPT !.auth = a]
    /\ last' = NoCommand
    /\ UNCHANGED <<sessions, rot, rr, ld>>

\* The IDE removes or rewrites the row of the secondary key.
IdeWriteGoogle ==
    /\ \E g \in {<<>>} \cup {<<v>> : v \in GoogleValues} :
          agDb' = [agDb EXCEPT !.google = g]
    /\ last' = NoCommand
    /\ UNCHANGED <<sessions, rot, rr, ld>>

\* case 'sync'
Sync(now) ==
    LET r == syncCurrent(agDb, sessions, now) IN
    /\ sessions' = r.sessions
    /\ last' = [cmd |-> "sync", sync |-> r.out, out |-> r.out, exit |-> 0,
                repeat |-> (last.cmd = "sync"), changes |-> 0]
    /\ UNCHANGED <<agDb, rot, rr, ld>>

CmdSync == \E now \in Nows(sessions) : Sync(now)

\* case 'next'
NextCmd(now1, now2) ==
    LET r == next(agDb, sessions, now1, now2) IN
    /\ agDb' = r.agDb
    /\ sessions' = r.sessions
    /\ last' = [cmd |-> "next", sync |-> r.sync, out |-> r.out, exit |-> 0,
                repeat |-> FALSE, changes |-> 0]
    /\ UNCHANGED <<rot, rr, ld>>

CmdNext ==
    \E now1 \in Nows(sessions) : \E now2 \in {t \in Times : now1 <= t} :
        NextCmd(now1, now2)

\* case 'load': process.exit(1) on a missing argument, otherwise
\* loadByEmail(arg) and the process ends normally.
Load(arg, now) ==
    IF arg = <<>> \/ arg[1] = ""
    THEN /\ last' = [cmd |-> "load", sync |-> "", out |-> "Usage", exit |-> 1,
                repeat |-> FALSE, changes |-> 0]
         /\ UNCHANGED <<agDb, sessions, rot, rr, ld>>
    ELSE LET r == loadSession(agDb, sessions, arg[1], now) IN
         /\ agDb' = r.agDb
         /\ sessions' = r.sessions
         /\ last' = [cmd |-> "load", sync |-> "", out |-> r.out, exit |-> 0,
                repeat |-> FALSE, changes |-> 0]
         /\ UNCHANGED <<rot, rr, ld>>

CmdLoad ==
    \E arg \in Args :
      IF arg = <<>> \/ arg[1] = "" THEN Load(arg, 0)
      ELSE \E now \in Nows(sessions) : Load(arg, now)

\* case 'delete'
Delete(arg) ==
    IF arg = <<>> \/ arg[1] = ""
    THEN /\ last' = [cmd |-> "delete", sync |-> "", out |-> "Usage", exit |-> 1,
                repeat |-> FALSE, changes |-> 0]
         /\ UNCHANGED <<agDb, sessions, rot, rr, ld>>
    ELSE /\ sessions' = deleteSession(sessions, arg[1])
         /\ last' = [cmd |-> "delete", sync |-> "", out |-> "Deleted", exit |-> 0,
                repeat |-> FALSE,
                changes |-> Cardinality(sessions \ deleteSession(sessions, arg[1]))]
         /\ UNCHANGED <<agDb, rot, rr, ld>>

CmdDelete == \E arg \in Args : Delete(arg)

\* case 'list'
CmdList ==
    /\ last' = [NoCommand EXCEPT !.cmd = "list", !.out = listSessions(agDb, sessions).out]
    /\ UNCHANGED <<agDb, sessions, rot, rr, ld>>

Next ==
    \/ IdeWriteAuth \/ IdeWriteGoogle
    \/ CmdSync \/ CmdNext \/ CmdLoad \/ CmdDelete \/ CmdList

Spec == Init /\ [][Next]_vars

----------------------------------------------------------------------------
(* Rotation over a frozen repository: getNextSession as a function *)

\* A repository row as syncCurrent creates it, last used at time t.
StoredRow(e, t) ==
    [email |-> e, auth_status |-> AuthBlob(e, 1), google_data |-> "{}",
     last_used |-> t, created_at |-> 0, updated_at |-> 0]

\* Every repository over Emails with last_used in 0..MaxLastUsed.
Repositories ==
    {{StoredRow(e, f[e]) : e \in S} :
        f \in [Emails -> 0..MaxLastUsed], S \in SUBSET Emails}

EmailOf(session) == IF session = <<>> THEN <<>> ELSE <<session[1].email>>

InitRot ==
    /\ agDb = [auth |-> <<>>, google |-> <<>>]
    /\ sessions \in Repositories
    /\ last = NoCommand
    /\ rot = NoRot
    /\ rr = NoRR
    /\ ld = NoLoad

\* One call getNextSession(currentEmail).
RotAsk ==
    /\ \E c \in Args :
          rot' = [asked |-> TRUE, arg |-> c,
                  ret |-> EmailOf(getNextSession(sessions, c)),
                  start |-> <<>>, path |-> <<>>]
    /\ UNCHANGED <<agDb, sessions, last, rr, ld>>

\* Start a walk at a stored session.
RotStart ==
    /\ \E r \in sessions :
          rot' = [asked |-> FALSE, arg |-> <<>>, ret |-> <<>>,
                  start |-> <<r.email>>, path |-> <<>>]
    /\ UNCHANGED <<agDb, sessions, last, rr, ld>>

\* Follow the successor once more, up to as many times as there are sessions.
RotStep ==
    /\ rot.start # <<>>
    /\ Len(rot.path) < Cardinality(sessions)
    /\ LET cur == IF rot.path = <<>> THEN rot.start[1] ELSE rot.path[Len(rot.path)]
           nxt == getNextSession(sessions, <<cur>>) IN
       rot' = [rot EXCEPT !.path = Append(rot.path, nxt[1].email)]
    /\ UNCHANGED <<agDb, sessions, last, rr, ld>>

NextRot == RotAsk \/ RotStart \/ RotStep

SpecRot == InitRot /\ [][NextRot]_vars

----------------------------------------------------------------------------
(* Repeated next over three stored accounts, with no write of the IDE *)

\* Date.now() late enough for one load of every stored session after the
\* latest last_used of a repository of Repositories.
LateTimes == 0..(MaxLastUsed + Len(EmailSeq))

NowsLate(ss) ==
    {t \in LateTimes : \A r \in ss : /\ r.last_used <= t
                                      /\ r.created_at <= t
                                      /\ r.updated_at <= t}

\* The live store at the start: no auth key, an auth key that yields no
\* identity, or the login of one of the three accounts; the secondary key is
\* absent.
LiveStoresRR ==
    {[auth |-> <<>>, google |-> <<>>]}
        \cup {[auth |-> <<b>>, google |-> <<>>] :
                 b \in {GarbageBlob, NullBlob, NoEmailBlob, EmptyEmailBlob}}
        \cup {[auth |-> <<AuthBlob(e, v)>>, google |-> <<>>] :
                 e \in Emails, v \in {1, 2}}

InitRR ==
    /\ agDb \in LiveStoresRR
    /\ sessions \in Repositories
    /\ last = NoCommand
    /\ rot = NoRot
    /\ rr = [NoRR EXCEPT !.live = getCurrentSession(agDb) # <<>>]
    /\ ld = NoLoad

\* case 'next', run up to as many times as there are accounts.
RRNext(now1, now2) ==
    LET r == next(agDb, sessions, now1, now2)
        synced == syncCurrent(agDb, sessions, now1).sessions IN
    /\ rr.nexts < Len(EmailSeq)
    /\ agDb' = r.agDb
    /\ sessions' = r.sessions
    /\ last' = [cmd |-> "next", sync |-> r.sync, out |-> r.out, exit |-> 0,
                repeat |-> FALSE, changes |-> 0]
    /\ rr' = [n |-> IF rr.nexts = 0 THEN Cardinality(synced) ELSE rr.n,
              nexts |-> rr.nexts + 1,
              loads |-> IF r.out = "Loaded"
                        THEN Append(rr.loads, getCurrentSession(r.agDb)[1].email)
                        ELSE rr.loads,
              strict |-> /\ rr.strict
                         /\ r.out = "Loaded" => \A q \in synced : q.last_used < now2,
              live |-> rr.live]
    /\ UNCHANGED <<rot, ld>>

CmdNextRR ==
    \E now1 \in NowsLate(sessions) : \E now2 \in {t \in LateTimes : now1 <= t} :
        RRNext(now1, now2)

NextRR == CmdNextRR

SpecRR == InitRR /\ [][NextRR]_vars

----------------------------------------------------------------------------
(* loadSession statement by statement, the process killed at any point *)

LoadAfter_TouchFirst(pc, found) ==
    IF pc = "select" THEN (IF found THEN "touch" ELSE "notfound")
    ELSE IF pc = "touch" THEN "writeAuth"
    ELSE IF pc = "writeAuth" THEN "writeGoogle"
    ELSE IF pc = "writeGoogle" THEN "log"
    ELSE "done"

\* The statement that follows statement pc in loadSession; found: the
\* SELECT returned a row.
LoadAfter(pc, found) ==
    IF pc = "select" THEN (IF found THEN "writeAuth" ELSE "notfound")
    ELSE IF pc = "writeAuth" THEN "writeGoogle"
    ELSE IF pc = "writeGoogle" THEN "touch"
    ELSE IF pc = "touch" THEN "log"
    ELSE "done"

InitLoad ==
    /\ agDb \in LiveStoresRR
    /\ sessions \in Repositories
    /\ last = NoCommand
    /\ rot = NoRot
    /\ rr = NoRR
    /\ \E e \in Emails :
          ld = [pc |-> "select", at |-> "none", email |-> e, session |-> <<>>,
                before |-> <<agDb>>]

\* SELECT * FROM sessions WHERE email = ?; without a row, the error line
\* and return.
LdSelect ==
    /\ ld.pc = "select"
    /\ LET session == SelectByEmail(sessions, ld.email) IN
       /\ ld' = [ld EXCEPT !.session = session,
                           !.pc = LoadAfter("select", session # <<>>)]
       /\ last' = IF session = <<>>
                  THEN [NoCommand EXCEPT !.cmd = "load", !.out = "NotFound"]
                  ELSE last
    /\ UNCHANGED <<agDb, sessions, rot, rr>>

\* INSERT OR REPLACE INTO ItemTable ... ('antigravityAuthStatus', ...)
LdWriteAuth ==
    /\ ld.pc = "writeAuth"
    /\ agDb' = [agDb EXCEPT !.auth = <<ld.session[1].auth_status>>]
    /\ ld' = [ld EXCEPT !.pc = LoadAfter("writeAuth", TRUE)]
    /\ UNCHANGED <<sessions, last, rot, rr>>

\* INSERT OR REPLACE INTO ItemTable ... ('google.antigravity', ...)
LdWriteGoogle ==
    /\ ld.pc = "writeGoogle"
    /\ agDb' = [agDb EXCEPT !.google = <<ld.session[1].google_data>>]
    /\ ld' = [ld EXCEPT !.pc = LoadAfter("writeGoogle", TRUE)]
    /\ UNCHANGED <<sessions, last, rot, rr>>

\* now = Date.now(); UPDATE sessions SET last_used = ? WHERE email = ?
LdTouch ==
    /\ ld.pc = "touch"
    /\ \E now \in NowsLate(sessions) :
          sessions' = TouchLastUsed(sessions, ld.email, now)
    /\ ld' = [ld EXCEPT !.pc = LoadAfter("touch", TRUE)]
    /\ UNCHANGED <<agDb, last, rot, rr>>

\* console.log('Loaded session: ...')
LdLog ==
    /\ ld.pc = "log"
    /\ last' = [NoCommand EXCEPT !.cmd = "load", !.out = "Loaded"]
    /\ ld' = [ld EXCEPT !.pc = LoadAfter("log", TRUE)]
    /\ UNCHANGED <<agDb, sessions, rot, rr>>

\* The process is killed before its next statement.
LdCrash ==
    /\ ld.pc \in {"select", "writeAuth", "writeGoogle", "touch", "log"}
    /\ ld' = [ld EXCEPT !.pc = "crashed", !.at = ld.pc]
    /\ UNCHANGED <<agDb, sessions, last, rot, rr>>

NextLoad == LdSelect \/ LdWriteAuth \/ LdWriteGoogle \/ LdTouch \/ LdLog \/ LdCrash

SpecLoad == InitLoad /\ [][NextLoad]_vars

----------------------------------------------------------------------------
(* Two processes running loadSession, interleaved statement by statement *)

Procs == {"p1", "p2"}

\* Repositories of two or three sessions as syncCurrent adds them (never
\* used), each with one of two secondary blobs.
RepositoriesFresh ==
    {{[StoredRow(e, 0) EXCEPT !.google_data = g[e]] : e \in S} :
        g \in [Emails -> {"{}", "{g:1}"}],
        S \in {T \in SUBSET Emails : Cardinality(T) >= 2}}

WriteAuthKey_InsertOrIgnore(ag, session) ==
    IF ag.auth = <<>> THEN [ag EXCEPT !.auth = <<session.auth_status>>] ELSE ag

\* INSERT OR REPLACE INTO ItemTable ... ('antigravityAuthStatus', ...)
WriteAuthKey(ag, session) == [ag EXCEPT !.auth = <<session.auth_status>>]

\* INSERT OR REPLACE INTO ItemTable ... ('google.antigravity', ...)
WriteGoogleKey(ag, session) == [ag EXCEPT !.google = <<session.google_data>>]

\* ld in this specification: procs, the two processes (pc, the statement a
\* process is about to run; email, its argument; session, the row its
\* SELECT returned); authBy and googleBy, the process that wrote the key
\* last.
InitLoad2 ==
    /\ agDb \in {[auth |-> <<>>, google |-> <<>>],
                 [auth |-> <<AuthBlob(EmailSeq[3], 2)>>, google |-> <<"{g:1}">>]}
    /\ sessions \in RepositoriesFresh
    /\ last = NoCommand
    /\ rot = NoRot
    /\ rr = NoRR
    /\ \E e1 \in {r.email : r \in sessions} :
       \E e2 \in {r.email : r \in sessions} \ {e1} :
          ld = [procs |-> [p \in Procs |->
                             [pc |-> "select",
                              email |-> IF p = "p1" THEN e1 ELSE e2,
                              session |-> <<>>]],
                authBy |-> <<>>, googleBy |-> <<>>]

\* SELECT * FROM sessions WHERE email = ?
L2Select(p) ==
    /\ ld.procs[p].pc = "select"
    /\ LET session == SelectByEmail(sessions, ld.procs[p].email) IN
       /\ ld' = [ld EXCEPT !.procs[p].session = session,
                           !.procs[p].pc = LoadAfter("select", session # <<>>)]
       /\ last' = IF session = <<>>
                  THEN [NoCommand EXCEPT !.cmd = "load", !.out = "NotFound"]
                  ELSE last
    /\ UNCHANGED <<agDb, sessions, rot, rr>>

L2WriteAuth(p) ==
    /\ ld.procs[p].pc = "writeAuth"
    /\ agDb' = WriteAuthKey(agDb, ld.procs[p].session[1])
    /\ ld' = [ld EXCEPT !.procs[p].pc = LoadAfter("writeAuth", TRUE),
                        !.authBy = <<p>>]
    /\ UNCHANGED <<sessions, last, rot, rr>>

L2WriteGoogle(p) ==
    /\ ld.procs[p].pc = "writeGoogle"
    /\ agDb' = WriteGoogleKey(agDb, ld.procs[p].session[1])
    /\ ld' = [ld EXCEPT !.procs[p].pc = LoadAfter("writeGoogle", TRUE),
                        !.googleBy = <<p>>]
    /\ UNCHANGED <<sessions, last, rot, rr>>

\* now = Date.now(); UPDATE sessions SET last_used = ? WHERE email = ?
L2Touch(p) ==
    /\ ld.procs[p].pc = "touch"
    /\ \E now \in NowsLate(sessions) :
          sessions' = TouchLastUsed(sessions, ld.procs[p].email, now)
    /\ ld' = [ld EXCEPT !.procs[p].pc = LoadAfter("touch", TRUE)]
    /\ UNCHANGED <<agDb, last, rot, rr>>

\* console.log('Loaded session: ...')
L2Log(p) ==
    /\ ld.procs[p].pc = "log"
    /\ last' = [NoCommand EXCEPT !.cmd = "load", !.out = "Loaded"]
    /\ ld' = [ld EXCEPT !.procs[p].pc = LoadAfter("log", TRUE)]
    /\ UNCHANGED <<agDb, sessions, rot, rr>>

NextLoad2 ==
    \E p \in Procs :
        L2Select(p) \/ L2WriteAuth(p) \/ L2WriteGoogle(p) \/ L2Touch(p) \/ L2Log(p)

SpecLoad2 == InitLoad2 /\ [][NextLoad2]_vars

----------------------------------------------------------------------------
(* delete over every repository of up to three sessions *)

InitDelete ==
    /\ agDb \in LiveStoresRR
    /\ sessions \in Repositories
    /\ last = NoCommand
    /\ rot = NoRot
    /\ rr = NoRR
    /\ ld = NoLoad

NextDelete == CmdDelete

SpecDelete == InitDelete /\ [][NextDelete]_vars

----------------------------------------------------------------------------
(* Vocabulary of the properties *)

\* The step is a run of the command c: every command records itself in
\* last, and a write of the IDE resets last.
Ran(c) == last'.cmd = c

\* The live store holds a parseable identity: the auth key holds a JSON
\* object with a non-empty email member.
LiveParseable ==
    /\ agDb.auth # <<>>
    /\ agDb.auth[1].shape = "object"
    /\ agDb.auth[1].email # <<>>
    /\ agDb.auth[1].email[1] # ""

LiveId == agDb.auth[1].email[1]

LiveAuth == agDb.auth[1]

\* The secondary blob of the live session as the reader reports it: the
\* value of the secondary key, '{}' when that key is absent or holds the
\* empty string.
LiveSecondary ==
    IF agDb.google = <<>> THEN "{}"
    ELSE IF agDb.google[1] = "" THEN "{}" ELSE agDb.google[1]

Stored(ss, e) == \E r \in ss : r.email = e

RowOf(ss, e) == CHOOSE r \in ss : r.email = e

----------------------------------------------------------------------------
(* C1 *)

\* C1: next never loses the session that was active before switching: when
\* the live store holds a parseable identity X with blobs (A, G), then after
\* next the repository has a row keyed X with auth_blob = A and
\* secondary_blob = G, whether or not next switched the live store.
C1_NextKeepsActiveSession ==
    [][(Ran("next") /\ LiveParseable) =>
          \E r \in sessions' : /\ r.email = LiveId
                               /\ r.auth_status = LiveAuth
                               /\ r.google_data = LiveSecondary]_vars

\* next stored a session that was not in the repository and then switched
\* the live store to another one.
C1_Witness ==
    /\ last.cmd = "next"
    /\ last.sync = "Added"
    /\ last.out = "Loaded"
    /\ Cardinality(sessions) >= 2

----------------------------------------------------------------------------
(* C2 *)

\* C2 as stated: in a run of sync commands on an unchanged live store every
\* call after the first returns Unchanged.
C2_RepeatedSyncUnchanged ==
    (last.cmd = "sync" /\ last.repeat) => last.out = "Unchanged"

\* C2 amended: in a run of sync commands on an unchanged live store only the
\* first call can return Added; every later call returns Unchanged, or
\* NoActiveSession when the live store holds no parseable identity, and
\* leaves the repository exactly as it was.
C2_RepeatedSyncIdempotent ==
    [][(last.cmd = "sync" /\ Ran("sync")) =>
          /\ last'.out # "Added"
          /\ last'.out = (IF LiveParseable THEN "Unchanged" ELSE "NoActiveSession")
          /\ sessions' = sessions]_vars

\* A second sync in a row returned Unchanged after the first one had added
\* the session.
C2_Witness ==
    /\ last.cmd = "sync"
    /\ last.repeat
    /\ last.out = "Unchanged"
    /\ \E r \in sessions : r.email = LiveId /\ r.last_used = 0

----------------------------------------------------------------------------
(* C3 *)

\* C3: round trip: load of a stored identity followed immediately by a read
\* of the live store yields that identity and the stored session's blobs.
C3_LoadReadRoundTrip ==
    [][Ran("load") =>
          \A e \in {r.email : r \in sessions}, now \in Nows(sessions) :
             Load(<<e>>, now) =>
                LET read == getCurrentSession(agDb') IN
                /\ read # <<>>
                /\ read[1].email = e
                /\ read[1].auth_status = RowOf(sessions, e).auth_status
                /\ read[1].google_data = RowOf(sessions, e).google_data]_vars

\* A load has put a stored session with a non-default secondary blob into
\* the live store while another session is stored too.
C3_Witness ==
    /\ last.cmd = "load"
    /\ last.out = "Loaded"
    /\ agDb.google = <<"{g:1}">>
    /\ Cardinality(sessions) >= 2

----------------------------------------------------------------------------
(* C4, C5 *)

\* Row r comes strictly before row q in the rotation order: last_used
\* ascending, identity ascending.
Before(r, q) ==
    \/ r.last_used < q.last_used
    \/ r.last_used = q.last_used /\ EmailIndex(r.email) < EmailIndex(q.email)

\* The row immediately following x in that order, the first row when x is
\* the last one.
Following(ss, x) ==
    LET later == {q \in ss : Before(x, q)} IN
    IF later = {}
    THEN CHOOSE m \in ss : \A q \in ss \ {m} : Before(m, q)
    ELSE CHOOSE y \in later : \A q \in later \ {y} : Before(y, q)

\* C4: with the current identity stored in a repository of two or more
\* sessions, getNextSession returns the session immediately following it in
\* the order (last_used ascending, identity ascending), wrapping from the
\* last session to the first.
C4_NextSessionIsSuccessor ==
    (/\ rot.asked
     /\ rot.arg # <<>>
     /\ Stored(sessions, rot.arg[1])
     /\ Cardinality(sessions) >= 2)
    => rot.ret = <<Following(sessions, RowOf(sessions, rot.arg[1])).email>>

\* The scenario a(1000), b(2000), c(3000) with the time stamps scaled to
\* 0, 1, 2: the successor of c wraps to a.
C4_Witness ==
    /\ sessions = {StoredRow("a@x.com", 0), StoredRow("b@x.com", 1), StoredRow("c@x.com", 2)}
    /\ rot.asked
    /\ rot.arg = <<"c@x.com">>
    /\ rot.ret = <<"a@x.com">>

\* C5: rotation is a cycle: in a repository of N sessions, following the
\* successor N times from any session s ends at s, and the N sessions
\* visited are pairwise distinct (every session exactly once).
C5_RotationIsCycle ==
    (rot.start # <<>> /\ Len(rot.path) = Cardinality(sessions)) =>
        /\ rot.path[Len(rot.path)] = rot.start[1]
        /\ \A i \in 1..Len(rot.path), j \in 1..Len(rot.path) :
              i # j => rot.path[i] # rot.path[j]
        /\ {rot.path[i] : i \in 1..Len(rot.path)} = {r.email : r \in sessions}

\* A walk over three sessions, two of them with the same last_used, has
\* come back to where it started.
C5_Witness ==
    /\ Cardinality(sessions) = 3
    /\ \E r \in sessions, q \in sessions : r # q /\ r.last_used = q.last_used
    /\ rot.start = <<"b@x.com">>
    /\ Len(rot.path) = 3
    /\ rot.path[3] = "b@x.com"

----------------------------------------------------------------------------
(* C6, C7 *)

\* C6: when the live identity is not stored, sync returns Added and inserts
\* exactly one row keyed by it, with the live blobs ('{}' when the secondary
\* key is absent), last_used = 0 and created_at = updated_at = now; every
\* other row is unchanged.
C6_SyncAddsNewSession ==
    [][(Ran("sync") /\ LiveParseable /\ ~Stored(sessions, LiveId)) =>
          /\ last'.out = "Added"
          /\ \E now \in Nows(sessions) :
                sessions' = sessions \cup
                  {[email |-> LiveId, auth_status |-> LiveAuth,
                    google_data |-> LiveSecondary, last_used |-> 0,
                    created_at |-> now, updated_at |-> now]}
          /\ agDb.google = <<>> => RowOf(sessions', LiveId).google_data = "{}"]_vars

\* A sync at a time after 0 has added a session, read from a live store
\* without the secondary key, next to a session stored before.
C6_Witness ==
    /\ last.cmd = "sync"
    /\ last.out = "Added"
    /\ agDb.google = <<>>
    /\ Cardinality(sessions) = 2
    /\ \E r \in sessions : /\ r.email = LiveId
                           /\ r.last_used = 0
                           /\ r.created_at = MaxTime
                           /\ r.updated_at = MaxTime

\* The live blobs differ from the stored ones (exact inequality of the
\* texts).
LiveDiffers ==
    \/ RowOf(sessions, LiveId).auth_status # LiveAuth
    \/ RowOf(sessions, LiveId).google_data # LiveSecondary

\* C7: when the live identity is stored, sync returns Updated iff the live
\* auth blob or the live secondary blob differs from the stored one, and
\* Unchanged otherwise; either way the stored blobs equal the live blobs
\* afterwards, and in the Unchanged case no field of any row changes.
C7_SyncUpdatesIffChanged ==
    [][(Ran("sync") /\ LiveParseable /\ Stored(sessions, LiveId)) =>
          /\ last'.out = (IF LiveDiffers THEN "Updated" ELSE "Unchanged")
          /\ RowOf(sessions', LiveId).auth_status = LiveAuth
          /\ RowOf(sessions', LiveId).google_data = LiveSecondary
          /\ ~LiveDiffers => sessions' = sessions]_vars

\* A sync has updated a stored session whose secondary blob alone had
\* changed.
C7_Witness ==
    /\ last.cmd = "sync"
    /\ last.out = "Updated"
    /\ \E r \in sessions : /\ r.email = LiveId
                           /\ r.google_data = "{g:1}"
                           /\ r.created_at < r.updated_at

----------------------------------------------------------------------------
(* C8, C9, C10 *)

\* The live store has no active session: the auth key is absent, its value
\* is not parseable, or the parsed value has no email member.
LiveNoSession ==
    \/ agDb.auth = <<>>
    \/ agDb.auth # <<>> /\ agDb.auth[1].shape = "garbage"
    \/ agDb.auth # <<>> /\ agDb.auth[1].shape # "garbage" /\ agDb.auth[1].email = <<>>

\* C8: when the live store has no active session, the reader returns none,
\* and sync reports NoActiveSession, ends normally and leaves the repository
\* and the live store unchanged.
C8_NoActiveSession ==
    [][/\ LiveNoSession' => getCurrentSession(agDb') = <<>>
       /\ (Ran("sync") /\ LiveNoSession) =>
               /\ last'.out = "NoActiveSession"
               /\ last'.exit = 0
               /\ sessions' = sessions
               /\ agDb' = agDb]_vars

\* A sync has found an auth value that is not JSON, with sessions stored.
C8_Witness ==
    /\ last.cmd = "sync"
    /\ last.out = "NoActiveSession"
    /\ agDb.auth = <<GarbageBlob>>
    /\ sessions # {}

\* C9: load of an identity that is not stored signals NotFound and has no
\* partial effect: no key of the live store is written and no row changes.
C9_LoadNotFoundNoEffect ==
    [][Ran("load") =>
          \A e \in Emails \ {r.email : r \in sessions}, now \in Nows(sessions) :
             Load(<<e>>, now) =>
                /\ last'.out = "NotFound"
                /\ agDb' = agDb
                /\ sessions' = sessions]_vars

\* A load has missed while a session is live and sessions are stored.
C9_Witness ==
    /\ last.cmd = "load"
    /\ last.out = "NotFound"
    /\ LiveParseable
    /\ sessions # {}

\* C10: a direct invocation `load <identity>` naming an identity that is not
\* stored is reported as NotFound and the process exits with a non-zero
\* status.
C10_LoadNotFoundExitsNonZero ==
    (last.cmd = "load" /\ last.out = "NotFound") => last.exit # 0

----------------------------------------------------------------------------
(* C11 *)

\* C11: delete <identity> naming an identity absent from the repository
\* reports an error, not a success outcome, and leaves the repository and
\* the live store unchanged.  A run of delete that removed no row
\* (changes = 0) and was given an identity named an absent one; its step
\* leaves both stores alone, so the claim comes down to the outcome printed.
C11_DeleteAbsentReportsError ==
    (last.cmd = "delete" /\ last.out # "Usage" /\ last.changes = 0)
        => last.out # "Deleted"

\* The frame part of C11, which the code does keep: a delete that names an
\* absent identity changes neither store.
C11_DeleteAbsentNoEffect ==
    [][Ran("delete") =>
          \A e \in Emails \ {r.email : r \in sessions} :
             Delete(<<e>>) => (agDb' = agDb /\ sessions' = sessions)]_vars

C11_Witness ==
    /\ last.cmd = "delete"
    /\ last.out = "Deleted"
    /\ last.changes = 0
    /\ sessions # {}

----------------------------------------------------------------------------
(* C12 *)

\* C12: after delete(identity), get(identity) returns none and the rotation
\* order, hence every answer of getNextSession, excludes the identity, while
\* every other row is unchanged and the live store is unchanged.
C12_DeleteRemovesOnlyThatRow ==
    [][Ran("delete") =>
          \A e \in Emails :
             Delete(<<e>>) =>
                /\ agDb' = agDb
                /\ sessions' \subseteq sessions
                /\ \A r \in sessions : r.email # e => r \in sessions'
                /\ SelectByEmail(sessions', e) = <<>>
                /\ LET ordered == OrderByLastUsedEmail(sessions') IN
                   \A i \in 1..Len(ordered) : ordered[i].email # e
                /\ \A c \in Args : EmailOf(getNextSession(sessions', c)) # <<e>>]_vars

\* A delete removed a row of three, with a login in the live store.
C12_Witness ==
    /\ last.cmd = "delete"
    /\ last.changes = 1
    /\ Cardinality(sessions) = 2
    /\ agDb.auth # <<>>

----------------------------------------------------------------------------
(* C13 *)

\* C13: next, when after its sync step the repository holds exactly one
\* session and it is the live identity (before the step: the live identity
\* is parseable and no other identity is stored), reports that it is
\* already on the only session and loads nothing: no key of the live store
\* is written and the last_used of that session is what it was, 0 when the
\* sync step has just added the row.
C13_NextOnOnlySession ==
    [][(/\ Ran("next")
        /\ LiveParseable
        /\ \A r \in sessions : r.email = LiveId) =>
          /\ last'.out = "AlreadyOnOnly"
          /\ agDb' = agDb
          /\ \E r \in sessions' :
                /\ sessions' = {r}
                /\ r.email = LiveId
                /\ r.last_used = IF Stored(sessions, LiveId)
                                 THEN RowOf(sessions, LiveId).last_used
                                 ELSE 0]_vars

\* next found the live session to be the only one, and that session had been
\* loaded before (its last_used is not 0), at a time the clock has passed.
C13_Witness ==
    /\ last.cmd = "next"
    /\ last.out = "AlreadyOnOnly"
    /\ \E r \in sessions : sessions = {r} /\ r.last_used > 0

----------------------------------------------------------------------------
(* C14 *)

\* The identities and last_used stamps of the repository after the sync
\* step of next: the stored ones, and the live identity with last_used 0 if
\* it was not stored.
AfterSyncOrder ==
    {[email |-> r.email, last_used |-> r.last_used] : r \in sessions}
        \cup (IF Stored(sessions, LiveId) THEN {}
              ELSE {[email |-> LiveId, last_used |-> 0]})

\* C14: next, when the live store holds a parseable identity X and after
\* the sync step the repository holds two or more sessions, loads the
\* circular successor Y of X in the rotation order, and Y # X: afterwards the
\* live identity is Y and both keys of the live store hold the blobs stored
\* for Y.  With exactly two stored accounts Y is the other account.
C14_NextLoadsSuccessor ==
    [][(/\ Ran("next")
        /\ LiveParseable
        /\ \E r \in sessions : r.email # LiveId) =>
          LET x == CHOOSE k \in AfterSyncOrder : k.email = LiveId
              y == Following(AfterSyncOrder, x).email IN
          /\ y # LiveId
          /\ Stored(sessions, y)
          /\ last'.out = "Loaded"
          /\ agDb'.auth = <<RowOf(sessions, y).auth_status>>
          /\ agDb'.google = <<RowOf(sessions, y).google_data>>
          /\ getCurrentSession(agDb') # <<>>
          /\ getCurrentSession(agDb')[1].email = y]_vars

\* The first next of a run added the live identity as the third session and
\* switched to its successor.
C14_Witness ==
    /\ last.cmd = "next"
    /\ last.out = "Loaded"
    /\ last.sync = "Added"
    /\ Cardinality(sessions) = 3
    /\ rr.nexts = 1

----------------------------------------------------------------------------
(* C20 *)

\* C20: repeated next is a full round robin.  Starting with a parseable
\* identity in the live store and N >= 2 sessions after the first sync, with
\* no write of the IDE and every load drawing a timestamp above every stored
\* last_used, the runs of next so far have each loaded a session, no session
\* twice, and after N runs every stored session has been loaded exactly
\* once.
C20_RoundRobin ==
    (rr.live /\ rr.n >= 2 /\ rr.strict /\ rr.nexts <= rr.n) =>
        /\ Len(rr.loads) = rr.nexts
        /\ \A i, j \in 1..Len(rr.loads) : rr.loads[i] = rr.loads[j] => i = j
        /\ rr.nexts = rr.n =>
              {rr.loads[i] : i \in 1..Len(rr.loads)} = {r.email : r \in sessions}

\* Three runs of next over three sessions, each load later than every
\* stored last_used.
C20_Witness ==
    /\ rr.live
    /\ rr.n = 3
    /\ rr.strict
    /\ rr.nexts = 3
    /\ Len(rr.loads) = 3

\* Without the condition on the load timestamps the rotation can revisit a
\* session: C20 needs it.
C20_RoundRobinAnyTimes ==
    (rr.live /\ rr.n >= 2 /\ rr.nexts <= rr.n) =>
        \A i, j \in 1..Len(rr.loads) : rr.loads[i] = rr.loads[j] => i = j

----------------------------------------------------------------------------
(* C15 *)

\* C15: getNextSession returns null when the repository is empty, and when
\* the current identity is undefined or is not a stored identity it returns
\* the first session of the order: the one with the lowest last_used, the
\* lowest identity among those that tie.
C15_NextSessionDefaultsToFirst ==
    rot.asked =>
        /\ sessions = {} => rot.ret = <<>>
        /\ (sessions # {} /\ (rot.arg = <<>> \/ ~Stored(sessions, rot.arg[1]))) =>
              \E m \in sessions :
                 /\ \A q \in sessions \ {m} : Before(m, q)
                 /\ rot.ret = <<m.email>>

\* Two sessions that share last_used = 0, asked with an identity that is not
\* stored.
C15_Witness ==
    /\ rot.asked
    /\ rot.arg = <<"c@x.com">>
    /\ sessions = {StoredRow("a@x.com", 0), StoredRow("b@x.com", 0)}
    /\ rot.ret = <<"a@x.com">>

----------------------------------------------------------------------------
(* C16 *)

\* C16: in a repository of exactly one session getNextSession returns that
\* session whatever the current identity: undefined, empty, the identity of
\* that session, or an identity that is not stored.
C16_SingleSessionAlwaysReturned ==
    (rot.asked /\ Cardinality(sessions) = 1) =>
        \A r \in sessions : rot.ret = <<r.email>>

\* One stored session, asked with another identity.
C16_Witness ==
    /\ rot.asked
    /\ sessions = {StoredRow("b@x.com", 1)}
    /\ rot.arg = <<"a@x.com">>
    /\ rot.ret = <<"b@x.com">>

----------------------------------------------------------------------------
(* C17 *)

\* C17: in every reachable state every repository row has a non-null,
\* non-empty identity, no two rows share an identity, and no row has been
\* stored for an auth blob that yields no identity: the auth blob of every
\* row parses to an object whose email member is the identity of the row.
C17_IdentityUniqueAndNonEmpty ==
    /\ \A r \in sessions :
          /\ r.email \in Emails
          /\ r.email # ""
          /\ ~JSONparse(r.auth_status).threw
          /\ ~JSONparse(r.auth_status).isNull
          /\ JSONparse(r.auth_status).email = <<r.email>>
    /\ \A r, q \in sessions : r.email = q.email => r = q

\* Both accounts are stored, and sync has just run on a live store whose
\* auth blob is an object with an empty email member.
C17_Witness ==
    /\ last.cmd = "sync"
    /\ last.out = "NoActiveSession"
    /\ agDb.auth = <<EmptyEmailBlob>>
    /\ Cardinality(sessions) = 2

----------------------------------------------------------------------------
(* C18 *)

----------------------------------------------------------------------------
(* C19 *)

\* Both keys of the live store hold the blobs of the row the load selected.
LiveSwitched ==
    /\ agDb.auth = <<ld.session[1].auth_status>>
    /\ agDb.google = <<ld.session[1].google_data>>

\* The UPDATE of last_used of this load has run.
LoadTouched ==
    \/ ld.pc \in {"log", "done"}
    \/ ld.pc = "crashed" /\ ld.at = "log"

\* C19: within a load that found its session the writes of the live store
\* come before the update of last_used.  In no state, a state the process
\* was killed in included, has this load updated last_used while the live
\* store does not hold the blobs of the session, let alone still is what it
\* was before the load; and a process killed between the writes and the
\* update leaves the live store switched and last_used as it was.
C19_LiveWritesBeforeLastUsed ==
    ld.session # <<>> =>
        /\ LoadTouched => LiveSwitched
        /\ RowOf(sessions, ld.email).last_used # ld.session[1].last_used
              => LiveSwitched
        /\ (LoadTouched /\ ~(LET agDbBefore == ld.before[1] IN
                               /\ agDbBefore.auth = <<ld.session[1].auth_status>>
                               /\ agDbBefore.google = <<ld.session[1].google_data>>))
              => agDb # ld.before[1]
        /\ (ld.pc = "crashed" /\ ld.at = "touch") =>
              /\ LiveSwitched
              /\ RowOf(sessions, ld.email).last_used = ld.session[1].last_used

\* The process was killed between the two writes and the update: the live
\* store, which held another login, is switched.
C19_Witness ==
    /\ ld.pc = "crashed"
    /\ ld.at = "touch"
    /\ LiveSwitched
    /\ ld.before[1].auth # <<>>
    /\ agDb.auth # ld.before[1].auth
    /\ RowOf(sessions, ld.email).last_used = ld.session[1].last_used

----------------------------------------------------------------------------
(* C21 *)

\* C21: next, when the live store has no parseable identity: from a
\* repository that is not empty it loads the first session of the rotation
\* order (lowest last_used, lowest identity among ties), also when that is
\* the only stored session, touching nothing but the last_used of that row;
\* from an empty repository it reports that there are no sessions and
\* changes neither store.
C21_NextWithoutIdentity ==
    [][(Ran("next") /\ ~LiveParseable) =>
          IF sessions = {}
          THEN /\ last'.out = "NoSessions"
               /\ agDb' = agDb
               /\ sessions' = sessions
          ELSE \E m \in sessions :
                  /\ \A q \in sessions \ {m} : Before(m, q)
                  /\ last'.out = "Loaded"
                  /\ agDb'.auth = <<m.auth_status>>
                  /\ agDb'.google = <<m.google_data>>
                  /\ \A q \in sessions \ {m} : q \in sessions'
                  /\ \E t \in LateTimes :
                        sessions' = (sessions \ {m}) \cup {[m EXCEPT !.last_used = t]}]_vars

\* With an auth key that holds no identity, next has loaded the only stored
\* session.
C21_Witness ==
    /\ last.cmd = "next"
    /\ last.sync = "NoActiveSession"
    /\ last.out = "Loaded"
    /\ rr.nexts = 1
    /\ Cardinality(sessions) = 1

\* With no identity in the live store, next has found the repository empty.
C21_WitnessEmpty ==
    /\ last.cmd = "next"
    /\ last.out = "NoSessions"
    /\ sessions = {}
    /\ agDb.auth = <<NullBlob>>

----------------------------------------------------------------------------
(* C22 *)

\* The step ran syncCurrent, on its own or as the first step of next.
RanSync == last'.cmd \in {"sync", "next"}

\* The step ran a load that found its session, directly or from next.
RanLoad == last'.cmd \in {"load", "next"} /\ last'.out = "Loaded"

\* C22: repository mutations follow the session lifecycle in every step.
\* A row is created only by syncCurrent; auth_status, google_data and
\* updated_at of a row change only in syncCurrent and only for the row of
\* the live identity; last_used changes only in a load that found its
\* session, only for the row loaded, and to the time of the load;
\* created_at never changes while the row exists; and a row is removed only
\* by delete.  (A step that leaves the table as it is satisfies all of it.)
C22_RepositoryLifecycle ==
    [][sessions' # sessions =>
        /\ \A q \in sessions' :
             ~Stored(sessions, q.email) =>
                (RanSync /\ last'.sync = "Added" /\ LiveParseable /\ q.email = LiveId)
        /\ \A r \in sessions :
             ~Stored(sessions', r.email) => Ran("delete")
        /\ \A r \in sessions : \A q \in sessions' :
             r.email = q.email =>
                /\ q.created_at = r.created_at
                /\ (\/ q.auth_status # r.auth_status
                    \/ q.google_data # r.google_data
                    \/ q.updated_at # r.updated_at) =>
                      /\ RanSync
                      /\ last'.sync = "Updated"
                      /\ LiveParseable
                      /\ r.email = LiveId
                /\ q.last_used # r.last_used =>
                      /\ RanLoad
                      /\ agDb'.auth = <<q.auth_status>>
                      /\ agDb'.google = <<q.google_data>>
                      /\ q.last_used \in Nows(sessions)]_vars

\* A next that updated the row of the live identity and then loaded the
\* other row.
C22_Witness ==
    /\ last.cmd = "next"
    /\ last.sync = "Updated"
    /\ last.out = "Loaded"
    /\ \E r \in sessions : r.last_used > 0 /\ agDb.auth = <<r.auth_status>>
    /\ \E r \in sessions : r.updated_at > r.created_at /\ agDb.auth # <<r.auth_status>>

----------------------------------------------------------------------------
(* C23 *)

\* C23: the live store is written only by a load that found its session,
\* run directly or from next.  sync, delete and list, and a load or next
\* that ends otherwise (session not found, usage, no sessions, already on
\* the only session), leave both keys as they are; a load that found its
\* session leaves both keys holding the auth_status and google_data of one
\* stored session, whatever the keys held before.  (The readers
\* getCurrentSession and getNextSession are functions of the stores.)
C23_LiveStoreWrittenOnlyByLoad ==
    [][last'.cmd # "none" =>
          IF RanLoad
          THEN \E m \in sessions' : /\ agDb'.auth = <<m.auth_status>>
                                    /\ agDb'.google = <<m.google_data>>
          ELSE agDb' = agDb]_vars

\* A load has replaced a live store that held a login and a secondary value
\* no stored session has.
C23_Witness ==
    /\ last.cmd = "load"
    /\ last.out = "Loaded"
    /\ Cardinality(sessions) = 2
    /\ \E m \in sessions :
          /\ agDb = [auth |-> <<m.auth_status>>, google |-> <<m.google_data>>]
          /\ m.auth_status.rev = 2
          /\ m.google_data = "{g:1}"

----------------------------------------------------------------------------
(* C24 *)

\* Both load processes have finished.
BothDone == \A p \in Procs : ld.procs[p].pc = "done"

\* C24: the live store holds the blobs of exactly one identity even under
\* concurrent invocations: when two load processes that target different
\* stored sessions interleave statement by statement, then after both have
\* finished the auth blob and the secondary blob of the live store are
\* those of one and the same stored session.
C24_OneIdentityAfterConcurrentLoads ==
    BothDone =>
        \E m \in sessions : /\ agDb.auth = <<m.auth_status>>
                            /\ agDb.google = <<m.google_data>>

\* C24 as amended: after both processes have finished, each key holds the
\* blob of the session loaded by the process that wrote that key last, as
\* that process read it from the repository; the two blobs are those of one
\* and the same stored session when one process wrote both keys last, and
\* otherwise they belong to the two different sessions.
C24_LastWriterWinsPerKey ==
    BothDone =>
        /\ ld.authBy # <<>> /\ ld.googleBy # <<>>
        /\ agDb.auth = <<ld.procs[ld.authBy[1]].session[1].auth_status>>
        /\ agDb.google = <<ld.procs[ld.googleBy[1]].session[1].google_data>>
        /\ ld.authBy = ld.googleBy =>
              \E m \in sessions : /\ m.email = ld.procs[ld.authBy[1]].email
                                  /\ agDb.auth = <<m.auth_status>>
                                  /\ agDb.google = <<m.google_data>>
        /\ ld.authBy # ld.googleBy =>
              /\ JSONparse(agDb.auth[1]).email = <<ld.procs[ld.authBy[1]].email>>
              /\ RowOf(sessions, ld.procs[ld.googleBy[1]].email).google_data
                    = agDb.google[1]
              /\ ld.procs[ld.authBy[1]].email # ld.procs[ld.googleBy[1]].email

\* Both processes have finished, the auth key was last written by one and
\* the secondary key by the other, and the two sessions differ in their
\* secondary blob.
C24_Witness ==
    /\ BothDone
    /\ ld.authBy # ld.googleBy
    /\ \A m \in sessions : ~(agDb.auth = <<m.auth_status>> /\ agDb.google = <<m.google_data>>)

====
